---- MODULE Spec2Model ----
(***************************************************************************)
(* Rsync_aligner (src/tools/Rsync.py): alignment of two sync-pulse trains  *)
(* recorded on independent clocks, and conversion of timestamps between    *)
(* the two reference frames.                                               *)
(*                                                                         *)
(* Numbers.  Pulse times are integers (pyControl timestamps are integer    *)
(* milliseconds; simulate_pulses builds them as a cumsum of randint), and  *)
(* every float computed from them is an exact rational <<num, den>> in     *)
(* lowest terms with den > 0.  The float "not a number" is <<0, 0>>.       *)
(* Arrays are sequences; the code's indices are 0-based and are kept       *)
(* 0-based in chunk_starts_A / chunk_starts_B, with Slice and Assign       *)
(* doing the translation to 1-based sequences.                             *)
(***************************************************************************)
EXTENDS Integers, Sequences, FiniteSets, TLC

VARIABLES
    pulses,     \* the caller's two recordings: [A |-> pulse times, B |-> pulse times]
    status,     \* per aligner: "new" (not constructed), "ready" (__init__ returned), "raised"
    self,       \* per aligner: the attributes __init__ assigned (NoAttrs before that)
    locals,     \* per aligner: arguments and local variables of its __init__ call
    figures,    \* pylab's figures that hold a diagnostic plot
    last,       \* the most recent A_to_B / B_to_A call and what it returned
    scan,       \* a run of the chunk matcher on trains that may hold a non-finite time
    gui         \* the state of the 8-box MainGui window (src/gui/gui_8x_nolive.py)

vars == <<pulses, status, self, locals, figures, last, scan, gui>>

----------------------------------------------------------------------------
(* Bounds of the model *)

MaxPulses == 7        \* longest pulse train A
MaxShort == 5         \* longest pulse train B that is not A itself
ShortInterval == 1     \* an inter-pulse interval is short ...
LongInterval == 2      \* ... or long
MaxChunk == 2         \* chunk_size is drawn from 2..MaxChunk
FirstPulse == 1       \* time of the first pulse of a train

----------------------------------------------------------------------------
(* Floats as exact rationals, NaN-propagating as IEEE arithmetic is *)

NaN == <<0, 0>>
IsNaN(v) == v[2] = 0
Float(n) == <<n, 1>>

Abs(n) == IF n < 0 THEN -n ELSE n
Min(a, b) == IF a <= b THEN a ELSE b

RECURSIVE GCD(_, _)
GCD(a, b) == IF b = 0 THEN a ELSE GCD(b, a % b)

Rat(n, d) ==
    LET s == IF d < 0 THEN -1 ELSE 1
        g == GCD(Abs(n), Abs(d))
    IN  <<(s * n) \div g, (s * d) \div g>>

FAdd(a, b) == IF IsNaN(a) \/ IsNaN(b) THEN NaN ELSE Rat(a[1] * b[2] + b[1] * a[2], a[2] * b[2])
FSub(a, b) == IF IsNaN(a) \/ IsNaN(b) THEN NaN ELSE Rat(a[1] * b[2] - b[1] * a[2], a[2] * b[2])
FMul(a, b) == IF IsNaN(a) \/ IsNaN(b) THEN NaN ELSE Rat(a[1] * b[1], a[2] * b[2])
FDiv(a, b) == IF IsNaN(a) \/ IsNaN(b) \/ b[1] = 0 THEN NaN ELSE Rat(a[1] * b[2], a[2] * b[1])
\* comparisons with a NaN operand are false
FLess(a, b) == ~IsNaN(a) /\ ~IsNaN(b) /\ a[1] * b[2] < b[1] * a[2]
FEq(a, b) == ~IsNaN(a) /\ ~IsNaN(b) /\ a = b

----------------------------------------------------------------------------
(* numpy on sequences *)

Range(s) == {s[k] : k \in 1..Len(s)}

\* the array s with every element computed (an array is stored, not recomputed
\* at each access)
Array(s) == s \o <<>>

\* s[lo:hi] for 0 <= lo <= hi: clipped to the array, as a Python slice is
Slice(s, lo, hi) == SubSeq(s, lo + 1, Min(hi, Len(s)))

\* (mutant) differences taken the wrong way round
DiffBackward(s) == IF Len(s) < 2 THEN <<>> ELSE [k \in 1..(Len(s) - 1) |-> s[k] - s[k + 1]]

\* np.diff
Diff(s) == IF Len(s) < 2 THEN <<>> ELSE [k \in 1..(Len(s) - 1) |-> s[k + 1] - s[k]]

\* np.arange(0, stop, step), step > 0
Arange(stop, step) ==
    IF stop <= 0 THEN <<>> ELSE [k \in 1..((stop + step - 1) \div step) |-> (k - 1) * step]

RECURSIVE Dot(_, _)
Dot(x, y) == IF Len(x) = 0 THEN 0 ELSE x[1] * y[1] + Dot(Tail(x), Tail(y))

Reverse(s) == [k \in 1..Len(s) |-> s[Len(s) + 1 - k]]

\* np.correlate(a, v, mode='valid') for non-empty a, v: when a is the shorter
\* one numpy swaps the operands and reverses the result
Correlate(a, v) ==
    IF Len(a) >= Len(v)
    THEN [k \in 1..(Len(a) - Len(v) + 1) |-> Dot(SubSeq(a, k, k + Len(v) - 1), v)]
    ELSE Reverse([k \in 1..(Len(v) - Len(a) + 1) |-> Dot(SubSeq(v, k, k + Len(a) - 1), a)])

\* (mutant) an argmin that returns the last occurrence of the minimum
ArgminLast(m) ==
    (CHOOSE k \in 1..Len(m) :
        /\ \A j \in 1..Len(m) : ~FLess(m[j], m[k])
        /\ \A j \in (k + 1)..Len(m) : FLess(m[k], m[j])) - 1

\* np.argmin: 0-based index of the first occurrence of the minimum
Argmin(m) ==
    (CHOOSE k \in 1..Len(m) :
        /\ \A j \in 1..Len(m) : ~FLess(m[j], m[k])
        /\ \A j \in 1..(k - 1) : FLess(m[k], m[j])) - 1

\* (mutant) a sort in descending order
RECURSIVE SortDescending(_)
SortDescending(m) ==
    IF Len(m) = 0 THEN <<>>
    ELSE LET k == Argmin(m) + 1
         IN  SortDescending(SubSeq(m, 1, k - 1) \o SubSeq(m, k + 1, Len(m))) \o <<m[k]>>

\* np.sort (ascending)
RECURSIVE Sort(_)
Sort(m) ==
    IF Len(m) = 0 THEN <<>>
    ELSE LET k == Argmin(m) + 1
         IN  <<m[k]>> \o Sort(SubSeq(m, 1, k - 1) \o SubSeq(m, k + 1, Len(m)))

\* np.log of a mean squared error: strictly increasing on the positives, -inf at 0
Log(m) == IF m[1] = 0 THEN <<"-inf", m>> ELSE <<"log", m>>
IsFinite(l) == l[1] = "log"

\* arr[lo:hi] = vals: the values must have the slice's length, or length 1
\* (broadcast); anything else raises ValueError
CanAssign(arr, lo, hi, vals) ==
    \/ Len(vals) = Len(Slice(arr, lo, hi))
    \/ Len(vals) = 1
Assign(arr, lo, hi, vals) ==
    Array([k \in 1..Len(arr) |->
        IF k > lo /\ k <= Min(hi, Len(arr))
        THEN (IF Len(vals) = 1 THEN vals[1] ELSE vals[k - lo])
        ELSE arr[k]])

\* (mutant) np.zeros(shape) in place of np.full(shape, np.nan)
FullZeros(n) == Array([k \in 1..n |-> Float(0)])

\* np.full(shape, np.nan)
FullNaN(n) == Array([k \in 1..n |-> NaN])

ToFloat(s) == Array([k \in 1..Len(s) |-> Float(s[k])])

----------------------------------------------------------------------------
(* Rsync_aligner.__init__, lines 22-38: the chunk matcher *)

\* the mean squared error of chunk_A against every window of intervals_B
Mse(intervals_B, chunk_A, chunk_size) ==
    LET intervals_B2 == Array([k \in 1..Len(intervals_B) |-> intervals_B[k] * intervals_B[k]])
        ones_chunk == Array([k \in 1..chunk_size |-> 1])
        sb == Array(Correlate(intervals_B2, ones_chunk))
        sa == Dot(chunk_A, chunk_A)
        ab == Array(Correlate(intervals_B, chunk_A))
    IN  Array([k \in 1..Len(sb) |-> Rat(sb[k] + sa - 2 * ab[k], chunk_size)])

\* (mutant) chunk starts that stop one pulse early
ChunkStartsAStrict(pulse_times_A, chunk_size) ==
    Arange(Len(pulse_times_A) - chunk_size - 1, chunk_size)

\* (mutant) chunk starts that run to the end of the train, a last partial
\* chunk included
ChunkStartsAInclusive(pulse_times_A, chunk_size) == Arange(Len(pulse_times_A), chunk_size)

\* line 26
ChunkStartsA(pulse_times_A, chunk_size) == Arange(Len(pulse_times_A) - chunk_size, chunk_size)

\* the loop of lines 31-38.  error: "" when every iteration completes,
\* otherwise the exception the first iteration raises (every iteration sees
\* the same intervals_B, so the first one decides).
Matcher(pulse_times_A, pulse_times_B, chunk_size) ==
    LET intervals_A == Array(Diff(pulse_times_A))
        intervals_B == Array(Diff(pulse_times_B))
        chunk_starts_A == Array(ChunkStartsA(pulse_times_A, chunk_size))
        n == Len(chunk_starts_A)
        iteration(i) ==
            LET csA == chunk_starts_A[i]
                chunk_A == Slice(intervals_A, csA, csA + chunk_size)
                mse == Mse(intervals_B, chunk_A, chunk_size)
                sorted_chunk_min_mse == Array(Sort(mse))
            IN  <<Argmin(mse), sorted_chunk_min_mse[1], sorted_chunk_min_mse[2]>>
        loop == Array([i \in 1..n |-> iteration(i)])
        n_offsets == IF Len(intervals_B) >= chunk_size
                     THEN Len(intervals_B) - chunk_size + 1
                     ELSE chunk_size - Len(intervals_B) + 1
    IN  IF n > 0 /\ Len(intervals_B) = 0
        THEN [error |-> "ValueError: correlate"]     \* np.correlate of an empty array
        ELSE IF n > 0 /\ n_offsets < 2
        THEN [error |-> "IndexError"]                \* sorted_chunk_min_mse[1]
        ELSE [error |-> "",
              chunk_starts_A |-> chunk_starts_A,
              chunk_starts_B |-> Array([i \in 1..n |-> loop[i][1]]),
              chunk_min_mse |-> Array([i \in 1..n |-> loop[i][2]]),
              chunk_2nd_mse |-> Array([i \in 1..n |-> loop[i][3]])]

----------------------------------------------------------------------------
(* lines 42-46: classification by the two-component Gaussian mixture *)

\* lines 42-43: the pooled finite log mean squared errors
LogMse(chunk_min_mse, chunk_2nd_mse) ==
    LET hstack == chunk_min_mse \o chunk_2nd_mse
    IN  SelectSeq(Array([k \in 1..Len(hstack) |-> Log(hstack[k])]), IsFinite)

\* (mutant) a fit that accepts any number of samples, none included
GmmFitsAnything(log_mse) == Len(log_mse) >= 0

\* GaussianMixture.fit needs at least n_components = 2 samples
GmmFits(log_mse) == Len(log_mse) >= 2

\* line 46.  The fitted mixture is not determined by the source (the fit
\* starts from an unseeded k-means initialisation).  A fit is the cut it puts
\* between its two components: predict(x) == argmin(means_) holds exactly for
\* the samples x at or below the cut.  The cut is one of the samples, or lies
\* below them all (no sample falls to the lower-mean component).
LogLess(a, b) == IF IsFinite(a) THEN IsFinite(b) /\ FLess(a[2], b[2]) ELSE IsFinite(b)
GmmFitsOf(log_mse) ==
    {[x \in Range(log_mse) |-> ~LogLess(cut, x)] : cut \in Range(log_mse) \cup {Log(Float(0))}}
ValidMatches(log_mse, gmm) == Array([k \in 1..Len(log_mse) |-> gmm[log_mse[k]]])

----------------------------------------------------------------------------
(* lines 48-53: the correspondence arrays *)

\* (mutant) the loop body copying the A times one pulse late
CorStepLate(c, pulse_times_A, pulse_times_B, csA, csB, valid, chunk_size) ==
    IF ~c.ok \/ ~valid THEN c
    ELSE LET from_A == ToFloat(Slice(pulse_times_A, csA + 1, csA + 1 + chunk_size))
             from_B == ToFloat(Slice(pulse_times_B, csB, csB + chunk_size))
         IN  IF ~CanAssign(c.cor_times_A, csB, csB + chunk_size, from_A)
             THEN [c EXCEPT !.ok = FALSE]
             ELSE IF ~CanAssign(c.cor_times_B, csA, csA + chunk_size, from_B)
             THEN [c EXCEPT !.ok = FALSE]
             ELSE [ok |-> TRUE,
                   cor_times_A |-> Assign(c.cor_times_A, csB, csB + chunk_size, from_A),
                   cor_times_B |-> Assign(c.cor_times_B, csA, csA + chunk_size, from_B)]

\* (mutant) the loop body copying one pulse fewer than the chunk holds
CorStepTruncated(c, pulse_times_A, pulse_times_B, csA, csB, valid, chunk_size) ==
    IF ~c.ok \/ ~valid THEN c
    ELSE LET from_A == ToFloat(Slice(pulse_times_A, csA, csA + chunk_size - 1))
             from_B == ToFloat(Slice(pulse_times_B, csB, csB + chunk_size - 1))
         IN  IF ~CanAssign(c.cor_times_A, csB, csB + chunk_size - 1, from_A)
             THEN [c EXCEPT !.ok = FALSE]
             ELSE IF ~CanAssign(c.cor_times_B, csA, csA + chunk_size - 1, from_B)
             THEN [c EXCEPT !.ok = FALSE]
             ELSE [ok |-> TRUE,
                   cor_times_A |-> Assign(c.cor_times_A, csB, csB + chunk_size - 1, from_A),
                   cor_times_B |-> Assign(c.cor_times_B, csA, csA + chunk_size - 1, from_B)]

\* the loop body for the k-th (chunk_starts_A, chunk_starts_B, valid) triple
CorStep(c, pulse_times_A, pulse_times_B, csA, csB, valid, chunk_size) ==
    IF ~c.ok \/ ~valid THEN c
    ELSE LET from_A == ToFloat(Slice(pulse_times_A, csA, csA + chunk_size))
             from_B == ToFloat(Slice(pulse_times_B, csB, csB + chunk_size))
         IN  IF ~CanAssign(c.cor_times_A, csB, csB + chunk_size, from_A)
             THEN [c EXCEPT !.ok = FALSE]
             ELSE IF ~CanAssign(c.cor_times_B, csA, csA + chunk_size, from_B)
             THEN [c EXCEPT !.ok = FALSE]
             ELSE [ok |-> TRUE,
                   cor_times_A |-> Assign(c.cor_times_A, csB, csB + chunk_size, from_A),
                   cor_times_B |-> Assign(c.cor_times_B, csA, csA + chunk_size, from_B)]

\* zip stops at the shortest of its arguments
ZipLen(chunk_starts_A, chunk_starts_B, valid_matches) ==
    Min(Len(chunk_starts_A), Min(Len(chunk_starts_B), Len(valid_matches)))

\* (mutant) the loop run from the last chunk to the first, so that the
\* earliest chunk writes last
RECURSIVE CorLoopBackwards(_, _, _, _, _, _, _)
CorLoopBackwards(k, pulse_times_A, pulse_times_B, chunk_starts_A, chunk_starts_B, valid_matches, chunk_size) ==
    IF k = 0
    THEN [ok |-> TRUE,
          cor_times_A |-> FullNaN(Len(pulse_times_B)),
          cor_times_B |-> FullNaN(Len(pulse_times_A))]
    ELSE LET n == ZipLen(chunk_starts_A, chunk_starts_B, valid_matches) + 1 - k
         IN  CorStep(CorLoopBackwards(k - 1, pulse_times_A, pulse_times_B, chunk_starts_A,
                                      chunk_starts_B, valid_matches, chunk_size),
                     pulse_times_A, pulse_times_B,
                     chunk_starts_A[n], chunk_starts_B[n], valid_matches[n], chunk_size)

\* the loop of lines 50-53, up to and including the k-th triple
RECURSIVE CorLoop(_, _, _, _, _, _, _)
CorLoop(k, pulse_times_A, pulse_times_B, chunk_starts_A, chunk_starts_B, valid_matches, chunk_size) ==
    IF k = 0
    THEN [ok |-> TRUE,
          cor_times_A |-> FullNaN(Len(pulse_times_B)),
          cor_times_B |-> FullNaN(Len(pulse_times_A))]
    ELSE CorStep(CorLoop(k - 1, pulse_times_A, pulse_times_B, chunk_starts_A,
                         chunk_starts_B, valid_matches, chunk_size),
                 pulse_times_A, pulse_times_B,
                 chunk_starts_A[k], chunk_starts_B[k], valid_matches[k], chunk_size)

CorTimes(pulse_times_A, pulse_times_B, chunk_starts_A, chunk_starts_B, valid_matches, chunk_size) ==
    CorLoop(ZipLen(chunk_starts_A, chunk_starts_B, valid_matches),
            pulse_times_A, pulse_times_B, chunk_starts_A, chunk_starts_B,
            valid_matches, chunk_size)

----------------------------------------------------------------------------
(* lines 79-85: np.interp(x, xp, fp, left=nan, right=nan), xp increasing *)

\* the index j with xp[j] <= x < xp[j+1] (1-based); 0 left of xp, Len(xp)+1
\* right of it, Len(xp) at the last sample point
SearchSorted(x, xp) ==
    IF FLess(x, Float(xp[1])) THEN 0
    ELSE IF FLess(Float(xp[Len(xp)]), x) THEN Len(xp) + 1
    ELSE CHOOSE j \in 1..Len(xp) :
            /\ ~FLess(x, Float(xp[j]))
            /\ j < Len(xp) => FLess(x, Float(xp[j + 1]))

\* (mutant) np.interp without left=nan, right=nan: the end values are held
Interp1Held(x, xp, fp) ==
    IF IsNaN(x) THEN x
    ELSE LET j == SearchSorted(x, xp)
         IN  IF j = 0 THEN fp[1]
             ELSE IF j >= Len(xp) THEN fp[Len(xp)]
             ELSE IF Float(xp[j]) = x THEN fp[j]
             ELSE LET slope == FDiv(FSub(fp[j + 1], fp[j]), Float(xp[j + 1] - xp[j]))
                      fwd == FAdd(FMul(slope, FSub(x, Float(xp[j]))), fp[j])
                      bwd == FAdd(FMul(slope, FSub(x, Float(xp[j + 1]))), fp[j + 1])
                  IN  IF ~IsNaN(fwd) THEN fwd
                      ELSE IF ~IsNaN(bwd) THEN bwd
                      ELSE IF FEq(fp[j], fp[j + 1]) THEN fp[j]
                      ELSE NaN

\* (mutant) an interpolation that evaluates the segment's line even at a
\* sample point, so that an undefined neighbour spoils a defined sample
Interp1Segment(x, xp, fp) ==
    IF IsNaN(x) THEN x
    ELSE LET j == SearchSorted(x, xp)
         IN  IF j = 0 \/ j = Len(xp) + 1 THEN NaN
             ELSE IF j = Len(xp) THEN fp[j]
             ELSE FAdd(FMul(FDiv(FSub(fp[j + 1], fp[j]), Float(xp[j + 1] - xp[j])),
                            FSub(x, Float(xp[j]))),
                       fp[j])

Interp1(x, xp, fp) ==
    IF IsNaN(x) THEN x
    ELSE LET j == SearchSorted(x, xp)
         IN  IF j = 0 \/ j = Len(xp) + 1 THEN NaN
             ELSE IF j = Len(xp) THEN fp[j]
             ELSE IF Float(xp[j]) = x THEN fp[j]
             ELSE LET slope == FDiv(FSub(fp[j + 1], fp[j]), Float(xp[j + 1] - xp[j]))
                      fwd == FAdd(FMul(slope, FSub(x, Float(xp[j]))), fp[j])
                      bwd == FAdd(FMul(slope, FSub(x, Float(xp[j + 1]))), fp[j + 1])
                  IN  IF ~IsNaN(fwd) THEN fwd
                      ELSE IF ~IsNaN(bwd) THEN bwd
                      ELSE IF FEq(fp[j], fp[j + 1]) THEN fp[j]
                      ELSE NaN

Interp(times, xp, fp) == Array([k \in 1..Len(times) |-> Interp1(times[k], xp, fp)])

----------------------------------------------------------------------------
(* State *)

NoAttrs == [assigned |-> FALSE]
NoLocals == [called |-> FALSE]
NoCall == [op |-> "none"]
NoScan == [called |-> FALSE]
NoGui == [open |-> FALSE]

RECURSIVE TrainsOfLen(_)
TrainsOfLen(n) ==
    IF n = 1 THEN {<<FirstPulse>>}
    ELSE {Append(s, s[n - 1] + d) : s \in TrainsOfLen(n - 1), d \in {ShortInterval, LongInterval}}

\* strictly increasing pulse trains of 1..n pulses
PulseTrains(n) == UNION {TrainsOfLen(k) : k \in 1..n}

ChunkSizes == 2..MaxChunk

\* the batch of timestamps a caller converts: every instant of the recordings
\* and one before and one after them
LastInstant == FirstPulse + (MaxPulses - 1) * LongInterval + 1
AllTimes == Array([k \in 1..(LastInstant + 1) |-> Float(k - 1)])

\* recording B is a short train of its own, or the very train A
Recordings ==
    UNION {{[A |-> a, B |-> b] : b \in PulseTrains(MaxShort) \cup {a}} : a \in PulseTrains(MaxPulses)}

\* two aligners are built from recordings of full length
FullRecordings == {r \in Recordings : Len(r.A) = MaxShort /\ Len(r.B) = MaxShort}

InitOf(aligners, recordings) ==
    /\ pulses \in recordings
    /\ status = [i \in aligners |-> "new"]
    /\ self = [i \in aligners |-> NoAttrs]
    /\ locals = [i \in aligners |-> NoLocals]
    /\ figures = {}
    /\ last = NoCall
    /\ scan = NoScan
    /\ gui = NoGui

Init == InitOf({1}, Recordings)
InitPair == InitOf({1, 2}, FullRecordings)

----------------------------------------------------------------------------
(* Actions *)

\* __init__ raised: no attribute was assigned and the caller gets no object
Raise(i, chunk_size, plot, error) ==
    /\ status' = [status EXCEPT ![i] = "raised"]
    /\ locals' = [locals EXCEPT ![i] = [called |-> TRUE, chunk_size |-> chunk_size,
                                        plot |-> plot, error |-> error]]
    /\ UNCHANGED <<scan, gui, pulses, self, figures, last>>

\* (mutant) a plot that computes its timing errors in place, in cor_times_A
ReturnPlotInPlace(i, chunk_size, plot, m, valid_matches, c) ==
    /\ status' = [status EXCEPT ![i] = "ready"]
    /\ self' = [self EXCEPT ![i] = [assigned |-> TRUE,
                                    pulse_times_A |-> pulses.A,
                                    pulse_times_B |-> pulses.B,
                                    cor_times_A |-> IF plot THEN FullNaN(Len(pulses.B))
                                                    ELSE c.cor_times_A,
                                    cor_times_B |-> c.cor_times_B]]
    /\ locals' = [locals EXCEPT ![i] =
                    [called |-> TRUE, chunk_size |-> chunk_size, plot |-> plot, error |-> "",
                     chunk_starts_A |-> m.chunk_starts_A,
                     chunk_starts_B |-> m.chunk_starts_B,
                     chunk_min_mse |-> m.chunk_min_mse,
                     chunk_2nd_mse |-> m.chunk_2nd_mse,
                     n_valid_matches |-> Len(valid_matches),
                     zipped_valid |-> SubSeq(valid_matches, 1,
                                             ZipLen(m.chunk_starts_A, m.chunk_starts_B,
                                                    valid_matches))]]
    /\ figures' = IF plot THEN figures \cup {1} ELSE figures
    /\ UNCHANGED <<scan, gui, pulses, last>>

\* (mutant) the correspondence arrays kept as class attributes: assigning
\* them replaces them in every instance that already has them
ReturnClassAttrs(i, chunk_size, plot, m, valid_matches, c) ==
    /\ status' = [status EXCEPT ![i] = "ready"]
    /\ self' = [j \in DOMAIN self |->
                  IF j = i
                  THEN [assigned |-> TRUE,
                        pulse_times_A |-> pulses.A,
                        pulse_times_B |-> pulses.B,
                        cor_times_A |-> c.cor_times_A,
                        cor_times_B |-> c.cor_times_B]
                  ELSE IF self[j].assigned
                  THEN [self[j] EXCEPT !.cor_times_A = c.cor_times_A,
                                       !.cor_times_B = c.cor_times_B]
                  ELSE self[j]]
    /\ locals' = [locals EXCEPT ![i] =
                    [called |-> TRUE, chunk_size |-> chunk_size, plot |-> plot, error |-> "",
                     chunk_starts_A |-> m.chunk_starts_A,
                     chunk_starts_B |-> m.chunk_starts_B,
                     chunk_min_mse |-> m.chunk_min_mse,
                     chunk_2nd_mse |-> m.chunk_2nd_mse,
                     n_valid_matches |-> Len(valid_matches),
                     zipped_valid |-> SubSeq(valid_matches, 1,
                                             ZipLen(m.chunk_starts_A, m.chunk_starts_B,
                                                    valid_matches))]]
    /\ figures' = IF plot THEN figures \cup {1} ELSE figures
    /\ UNCHANGED <<scan, gui, pulses, last>>

\* lines 55-77
Return(i, chunk_size, plot, m, valid_matches, c) ==
    /\ status' = [status EXCEPT ![i] = "ready"]
    /\ self' = [self EXCEPT ![i] = [assigned |-> TRUE,
                                    pulse_times_A |-> pulses.A,
                                    pulse_times_B |-> pulses.B,
                                    cor_times_A |-> c.cor_times_A,
                                    cor_times_B |-> c.cor_times_B]]
    /\ locals' = [locals EXCEPT ![i] =
                    [called |-> TRUE, chunk_size |-> chunk_size, plot |-> plot, error |-> "",
                     chunk_starts_A |-> m.chunk_starts_A,
                     chunk_starts_B |-> m.chunk_starts_B,
                     chunk_min_mse |-> m.chunk_min_mse,
                     chunk_2nd_mse |-> m.chunk_2nd_mse,
                     n_valid_matches |-> Len(valid_matches),
                     zipped_valid |-> SubSeq(valid_matches, 1,
                                             ZipLen(m.chunk_starts_A, m.chunk_starts_B,
                                                    valid_matches))]]
    /\ figures' = IF plot THEN figures \cup {1} ELSE figures
    /\ UNCHANGED <<scan, gui, pulses, last>>

\* Rsync_aligner(pulse_times_A, pulse_times_B, chunk_size, plot)
Construct(i, chunk_size, plot) ==
    /\ status[i] = "new"
    /\ LET m == Matcher(pulses.A, pulses.B, chunk_size)
       IN  IF m.error # "" THEN Raise(i, chunk_size, plot, m.error)
           ELSE LET log_mse == LogMse(m.chunk_min_mse, m.chunk_2nd_mse)
                IN  IF ~GmmFits(log_mse)
                    THEN Raise(i, chunk_size, plot, "ValueError: fit")
                    ELSE \E gmm \in GmmFitsOf(log_mse) :
                           LET valid_matches == ValidMatches(log_mse, gmm)
                               c == CorTimes(pulses.A, pulses.B, m.chunk_starts_A,
                                             m.chunk_starts_B, valid_matches, chunk_size)
                           IN  IF ~c.ok
                               THEN Raise(i, chunk_size, plot, "ValueError: broadcast")
                               ELSE Return(i, chunk_size, plot, m, valid_matches, c)

\* the timestamps a caller passes: the batch of all instants, or what the
\* opposite conversion of that batch just returned (a round trip)
RoundTrip ==
    IF last.op = "A_to_B" /\ last.times = AllTimes THEN {last.result} ELSE {}

\* (mutant) a conversion that fills the undefined entries of cor_times_B
\* in place before interpolating
A_to_B_Filling(i, times_A) ==
    /\ status[i] = "ready"
    /\ LET filled == Array([k \in 1..Len(self[i].cor_times_B) |->
                           IF IsNaN(self[i].cor_times_B[k]) THEN Float(0)
                           ELSE self[i].cor_times_B[k]])
       IN  /\ self' = [self EXCEPT ![i].cor_times_B = filled]
           /\ last' = [op |-> "A_to_B", aligner |-> i, times |-> times_A,
                       result |-> Interp(times_A, self[i].pulse_times_A, filled)]
    /\ UNCHANGED <<scan, gui, pulses, status, locals, figures>>

A_to_B(i, times_A) ==
    /\ status[i] = "ready"
    /\ last' = [op |-> "A_to_B", aligner |-> i, times |-> times_A,
                result |-> Interp(times_A, self[i].pulse_times_A, self[i].cor_times_B)]
    /\ UNCHANGED <<scan, gui, pulses, status, self, locals, figures>>

B_to_A(i, times_B) ==
    /\ status[i] = "ready"
    /\ last' = [op |-> "B_to_A", aligner |-> i, times |-> times_B,
                result |-> Interp(times_B, self[i].pulse_times_B, self[i].cor_times_A)]
    /\ UNCHANGED <<scan, gui, pulses, status, self, locals, figures>>

\* one aligner, built with the default plot=False
Build == \E chunk_size \in ChunkSizes : Construct(1, chunk_size, FALSE)
ConvertAB == A_to_B(1, AllTimes)
ConvertBA == \E times_B \in {AllTimes} \cup RoundTrip : B_to_A(1, times_B)

Next == Build \/ ConvertAB \/ ConvertBA

\* two aligners built from the same recordings, with or without the plot
BuildAny ==
    \E i \in DOMAIN status, chunk_size \in ChunkSizes, plot \in BOOLEAN :
        Construct(i, chunk_size, plot)
ConvertAnyAB == \E i \in DOMAIN status : A_to_B(i, AllTimes)
ConvertAnyBA == \E i \in DOMAIN status : B_to_A(i, AllTimes)

NextPair == BuildAny \/ ConvertAnyAB \/ ConvertAnyBA

Spec == Init /\ [][Next]_vars
SpecPair == InitPair /\ [][NextPair]_vars

----------------------------------------------------------------------------
(* The chunk matcher (lines 22-43) on pulse times that may be non-finite.   *)
(* Floats are the rationals <<num, den>> with den > 0, NaN = <<0, 0>>,      *)
(* +inf = <<1, 0>> and -inf = <<-1, 0>>, with IEEE arithmetic.              *)

PosInf == <<1, 0>>
NegInf == <<-1, 0>>
XIsNaN(v) == v = NaN
XIsFinite(v) == v[2] # 0
XSign(v) == IF v[1] > 0 THEN 1 ELSE IF v[1] < 0 THEN -1 ELSE 0

XAdd(a, b) ==
    IF XIsNaN(a) \/ XIsNaN(b) THEN NaN
    ELSE IF ~XIsFinite(a) /\ ~XIsFinite(b) THEN (IF a = b THEN a ELSE NaN)
    ELSE IF ~XIsFinite(a) THEN a
    ELSE IF ~XIsFinite(b) THEN b
    ELSE Rat(a[1] * b[2] + b[1] * a[2], a[2] * b[2])
XMul(a, b) ==
    IF XIsNaN(a) \/ XIsNaN(b) THEN NaN
    ELSE IF ~XIsFinite(a) \/ ~XIsFinite(b) THEN <<XSign(a) * XSign(b), 0>>
    ELSE Rat(a[1] * b[1], a[2] * b[2])
XSub(a, b) == XAdd(a, XMul(Float(-1), b))
XLess(a, b) ==
    /\ ~XIsNaN(a) /\ ~XIsNaN(b) /\ a # b
    /\ \/ a = NegInf
       \/ b = PosInf
       \/ XIsFinite(a) /\ XIsFinite(b) /\ a[1] * b[2] < b[1] * a[2]

\* np.diff of a float array
XDiff(s) == IF Len(s) < 2 THEN <<>> ELSE [k \in 1..(Len(s) - 1) |-> XSub(s[k + 1], s[k])]

RECURSIVE XDot(_, _)
XDot(x, y) ==
    IF Len(x) = 0 THEN Float(0) ELSE XAdd(XMul(x[1], y[1]), XDot(Tail(x), Tail(y)))

\* (mutant) a sliding correlation in which each window is computed from the
\* previous one, so that a non-finite value stays in every later window
RECURSIVE XCorrelateRunning(_, _)
XCorrelateRunning(a, v) ==
    IF Len(a) <= Len(v) THEN <<XDot(SubSeq(a, 1, Len(v)), v)>>
    ELSE LET before == XCorrelateRunning(SubSeq(a, 1, Len(a) - 1), v)
             k == Len(a) - Len(v) + 1
             drift == XSub(XDot(SubSeq(a, k - 1, k + Len(v) - 2), v),
                           before[Len(before)])
         IN  Append(before, XSub(XDot(SubSeq(a, k, k + Len(v) - 1), v), drift))

\* np.correlate(a, v, mode='valid'), Len(a) >= Len(v) >= 1: one dot product
\* per window
XCorrelate(a, v) ==
    [k \in 1..(Len(a) - Len(v) + 1) |-> XDot(SubSeq(a, k, k + Len(v) - 1), v)]

\* lines 33-34
XMse(intervals_B, chunk_A, chunk_size) ==
    LET intervals_B2 == Array([k \in 1..Len(intervals_B) |->
                                  XMul(intervals_B[k], intervals_B[k])])
        ones_chunk == Array([k \in 1..chunk_size |-> Float(1)])
        sb == Array(XCorrelate(intervals_B2, ones_chunk))
        sa == XDot(chunk_A, chunk_A)
        ab == Array(XCorrelate(intervals_B, chunk_A))
    IN  Array([k \in 1..Len(sb) |->
            XMul(XSub(XAdd(sb[k], sa), XMul(Float(2), ab[k])), <<1, chunk_size>>)])

\* np.argmin: the first NaN if there is one, else the first minimum
XArgmin(m) ==
    IF \E k \in 1..Len(m) : XIsNaN(m[k])
    THEN (CHOOSE k \in 1..Len(m) :
             XIsNaN(m[k]) /\ \A j \in 1..(k - 1) : ~XIsNaN(m[j])) - 1
    ELSE (CHOOSE k \in 1..Len(m) :
             /\ \A j \in 1..Len(m) : ~XLess(m[j], m[k])
             /\ \A j \in 1..(k - 1) : XLess(m[k], m[j])) - 1

\* np.sort: ascending, NaN last
XBefore(a, b) == ~XIsNaN(a) /\ (XIsNaN(b) \/ XLess(a, b))
RECURSIVE XSort(_)
XSort(m) ==
    IF Len(m) = 0 THEN <<>>
    ELSE LET k == CHOOSE k \in 1..Len(m) : \A j \in 1..Len(m) : ~XBefore(m[j], m[k])
         IN  <<m[k]>> \o XSort(SubSeq(m, 1, k - 1) \o SubSeq(m, k + 1, Len(m)))

\* lines 42-43: np.log(x) is finite exactly for finite x > 0
XLogIsFinite(v) == XIsFinite(v) /\ v[1] > 0


\* the loop of lines 31-38 and the pooling of lines 42-43 on float arrays,
\* for a train B of more than chunk_size intervals (a shorter one is the
\* business of Matcher)
XMatcher(pulse_times_A, pulse_times_B, chunk_size) ==
    LET intervals_A == Array(XDiff(pulse_times_A))
        intervals_B == Array(XDiff(pulse_times_B))
        chunk_starts_A == Array(ChunkStartsA(pulse_times_A, chunk_size))
        n == Len(chunk_starts_A)
        iteration(i) ==
            LET csA == chunk_starts_A[i]
                chunk_A == Slice(intervals_A, csA, csA + chunk_size)
                mse == XMse(intervals_B, chunk_A, chunk_size)
                sorted_chunk_min_mse == Array(XSort(mse))
            IN  <<XArgmin(mse), sorted_chunk_min_mse[1], sorted_chunk_min_mse[2], mse>>
        loop == Array([i \in 1..n |-> iteration(i)])
        hstack == Array([i \in 1..n |-> loop[i][2]]) \o Array([i \in 1..n |-> loop[i][3]])
    IN  IF n > 0 /\ Len(intervals_B) <= chunk_size
        THEN [error |-> "B too short to scan"]
        ELSE [error |-> "",
              chunk_starts_A |-> chunk_starts_A,
              chunk_starts_B |-> Array([i \in 1..n |-> loop[i][1]]),
              chunk_min_mse |-> Array([i \in 1..n |-> loop[i][2]]),
              chunk_2nd_mse |-> Array([i \in 1..n |-> loop[i][3]]),
              mse |-> Array([i \in 1..n |-> loop[i][4]]),
              log_mse |-> SelectSeq(hstack, XLogIsFinite)]

\* a train with the time of one pulse replaced by a non-finite value
NonFinite == {NaN, PosInf}
Glitched(train) ==
    {ToFloat(train)} \cup
    {[ToFloat(train) EXCEPT ![g] = v] : g \in 1..Len(train), v \in NonFinite}

\* the trains scanned: a full-length recording with at most one glitched pulse
InitScan ==
    /\ pulses \in FullRecordings
    /\ status = <<>>
    /\ self = <<>>
    /\ locals = <<>>
    /\ figures = {}
    /\ last = NoCall
    /\ gui = NoGui
    /\ \E a \in Glitched(pulses.A), b \in Glitched(pulses.B) :
          /\ a = ToFloat(pulses.A) \/ b = ToFloat(pulses.B)
          /\ scan = [called |-> FALSE, pulse_times_A |-> a, pulse_times_B |-> b]

\* lines 22-43 of a constructor call on the scanned trains
ScanChunks ==
    /\ ~scan.called
    /\ \E chunk_size \in ChunkSizes :
          scan' = [called |-> TRUE,
                   pulse_times_A |-> scan.pulse_times_A,
                   pulse_times_B |-> scan.pulse_times_B,
                   chunk_size |-> chunk_size,
                   matcher |-> XMatcher(scan.pulse_times_A, scan.pulse_times_B, chunk_size)]
    /\ UNCHANGED <<pulses, status, self, locals, figures, last, gui>>

NextScan == ScanChunks

SpecScan == InitScan /\ [][NextScan]_vars

----------------------------------------------------------------------------
(***************************************************************************)
(* The control window MainGui of src/gui/gui_8x_nolive.py: eight boxes,    *)
(* each with a board, a connect, an upload, a start and a stop button, a   *)
(* process timer and a refresh timer.  Qt runs every handler to completion *)
(* on one thread, so a handler is one step.  The board library and the     *)
(* serial port are the environment: a call into them returns or raises,    *)
(* and the outcome is an input of the step.  A disabled button is not      *)
(* clicked.                                                                *)
(***************************************************************************)
NumBoxes == 8
\* boxes the operator touches in one session
MaxInUse == 2
\* single-shot callbacks of one box that are pending at the same time
MaxShots == 1

Boxes == 1..NumBoxes

\* the window after MainGui.__init__: every box disconnected, the refresh
\* timers started, start, stop and upload disabled (disable_widgets), the
\* connect buttons as the form creates them
NewGui ==
    [open |-> TRUE,
     released |-> {},
     board |-> [n \in Boxes |-> "None"],
     connected |-> [n \in Boxes |-> FALSE],
     uploaded |-> [n \in Boxes |-> FALSE],
     task |-> [n \in Boxes |-> "None"],
     process_timer |-> [n \in Boxes |-> FALSE],
     refresh_timer |-> [n \in Boxes |-> TRUE],
     pushButton_connect |-> [n \in Boxes |-> TRUE],
     pushButton_upload |-> [n \in Boxes |-> FALSE],
     pushButton_Start |-> [n \in Boxes |-> FALSE],
     pushButton_Stop |-> [n \in Boxes |-> FALSE],
     shots |-> [n \in Boxes |-> 0],
     event |-> [widget |-> "none", box |-> 0, handler |-> "__init__", arg |-> ""]]

\* the last handler that ran, the widget or timer that called it, and the
\* argument or exception that tells its runs apart
Handled(g, widget, n, handler, arg) ==
    [g EXCEPT !.event = [widget |-> widget, box |-> n, handler |-> handler, arg |-> arg]]

\* the box whose connected flag the click handler of pushButton_connect_n reads
connect_flag(n) == IF n = 5 THEN 1 ELSE n

\* the hash function each box's upload names, and the one the module imports
hash_file(n) == IF n <= 4 THEN "_djb2_file" ELSE "_djb6_file"

imported == {"_djb2_file"}

SerialOutcomes == {"ok", "SerialException"}

BoardOutcomes == {"ok", "PyboardError"}

DataOutcomes == {"running", "finished", "PyboardError"}

\* connect_N: the port opens and the flags are set, or SerialException
\* leaves the box as it was; both ways the stop button is off and the
\* connect button on again
connect(g, n, outcome) ==
    IF outcome = "ok"
    THEN [g EXCEPT !.board[n] = "Pycboard",
                   !.connected[n] = TRUE,
                   !.pushButton_Stop[n] = FALSE,
                   !.pushButton_connect[n] = TRUE,
                   !.pushButton_upload[n] = TRUE]
    ELSE [g EXCEPT !.pushButton_Stop[n] = FALSE,
                   !.pushButton_connect[n] = TRUE]

\* disconnect_N
disconnect(g, n) ==
    [g EXCEPT !.board[n] = "None",
              !.pushButton_Start[n] = FALSE,
              !.pushButton_Stop[n] = FALSE,
              !.pushButton_upload[n] = FALSE,
              !.connected[n] = FALSE]

\* task_changed_N
task_changed(g, n) ==
    [g EXCEPT !.uploaded[n] = FALSE,
              !.pushButton_Start[n] = FALSE]

\* what setup_task_N passes to setup_state_machine, or the exception that
\* ends it before the call
setup_call(g, n) ==
    IF ~g.uploaded[n] /\ hash_file(n) \notin imported THEN "NameError"
    ELSE IF g.board[n] = "None" THEN "AttributeError"
    ELSE IF g.uploaded[n] THEN "uploaded=True"
    ELSE "uploaded=False"

\* setup_task_N
setup_task(g, n, outcome) ==
    IF setup_call(g, n) = "NameError" THEN g
    ELSE IF setup_call(g, n) = "AttributeError" \/ outcome = "PyboardError"
    THEN [g EXCEPT !.pushButton_Start[n] = FALSE]
    ELSE [g EXCEPT !.pushButton_Start[n] = TRUE,
                   !.pushButton_Stop[n] = FALSE,
                   !.task[n] = "task",
                   !.uploaded[n] = TRUE]

\* (mutant) a start that leaves the refresh timer running
start_task_keeps_refreshing(g, n) ==
    IF g.board[n] = "None" THEN g
    ELSE [g EXCEPT !.pushButton_upload[n] = FALSE,
                   !.pushButton_Start[n] = FALSE,
                   !.pushButton_Stop[n] = TRUE,
                   !.pushButton_connect[n] = FALSE,
                   !.process_timer[n] = TRUE]

\* start_task_N
start_task(g, n) ==
    IF g.board[n] = "None" THEN g
    ELSE [g EXCEPT !.pushButton_upload[n] = FALSE,
                   !.pushButton_Start[n] = FALSE,
                   !.pushButton_Stop[n] = TRUE,
                   !.pushButton_connect[n] = FALSE,
                   !.process_timer[n] = TRUE,
                   !.refresh_timer[n] = FALSE]

\* (mutant) a stop asked for by the task or by an error leaves the
\* process timer running
stop_task_by_user_only(g, n, error, stopped_by_task) ==
    LET timers == IF error \/ stopped_by_task
                  THEN [g EXCEPT !.refresh_timer[n] = TRUE]
                  ELSE [g EXCEPT !.process_timer[n] = FALSE,
                                 !.refresh_timer[n] = TRUE]
    IN  IF ~(error \/ stopped_by_task) /\ g.board[n] = "None" THEN timers
        ELSE [timers EXCEPT !.shots[n] = IF error \/ stopped_by_task THEN @ ELSE @ + 1,
                            !.pushButton_Start[n] = TRUE,
                            !.pushButton_connect[n] = TRUE,
                            !.pushButton_upload[n] = TRUE,
                            !.pushButton_Stop[n] = FALSE]

\* stop_task_N
stop_task(g, n, error, stopped_by_task) ==
    LET timers == [g EXCEPT !.process_timer[n] = FALSE,
                            !.refresh_timer[n] = TRUE]
    IN  IF ~(error \/ stopped_by_task) /\ g.board[n] = "None" THEN timers
        ELSE [timers EXCEPT !.shots[n] = IF error \/ stopped_by_task THEN @ ELSE @ + 1,
                            !.pushButton_Start[n] = TRUE,
                            !.pushButton_connect[n] = TRUE,
                            !.pushButton_upload[n] = TRUE,
                            !.pushButton_Stop[n] = FALSE]

\* process_data_N
process_data(g, n, outcome) ==
    IF g.board[n] = "None" \/ outcome = "running" THEN g
    ELSE IF outcome = "finished" THEN stop_task(g, n, FALSE, TRUE)
    ELSE stop_task(g, n, TRUE, FALSE)

\* enable_widgets, as the class ends up defining it
enable_widgets(g, com_list) ==
    IF com_list \in 5..NumBoxes
    THEN [g EXCEPT !.pushButton_connect[com_list] = TRUE]
    ELSE g

\* refresh: scan_tasks calls task_changed_N for every box whose uploaded
\* task file was modified, scan_ports calls enable_widgets when the ports
\* changed (com_list = 0 when they did not)
refresh(g, modified, com_list) ==
    LET changed == {n \in modified : g.task[n] # "None"}
        tasks == [g EXCEPT !.uploaded = [n \in Boxes |-> IF n \in changed THEN FALSE ELSE @[n]],
                           !.pushButton_Start = [n \in Boxes |-> IF n \in changed THEN FALSE ELSE @[n]]]
    IN  enable_widgets(tasks, com_list)

\* closeEvent: the if/elif chain stops and closes the first board it finds
closeEvent(g) ==
    LET held == {n \in Boxes : g.board[n] # "None"}
    IN  [g EXCEPT !.open = FALSE,
                  !.released = {n \in held : \A m \in held : n <= m}]

\* the boxes that carry something of a session
InUse(g) ==
    {n \in Boxes : g.board[n] # "None" \/ g.task[n] # "None" \/ g.shots[n] > 0}

Rest == <<pulses, status, self, locals, figures, last, scan>>

InitGui ==
    /\ pulses = [A |-> <<>>, B |-> <<>>]
    /\ status = <<>>
    /\ self = <<>>
    /\ locals = <<>>
    /\ figures = {}
    /\ last = NoCall
    /\ scan = NoScan
    /\ gui = NewGui

\* a click on pushButton_connect_n
ClickConnect(n) ==
    /\ gui.open /\ gui.pushButton_connect[n]
    /\ \E outcome \in SerialOutcomes :
          /\ gui' = IF gui.connected[connect_flag(n)]
                    THEN Handled(disconnect(gui, n), "pushButton_connect", n, "disconnect", "")
                    ELSE Handled(connect(gui, n, outcome), "pushButton_connect", n, "connect", outcome)
          /\ Cardinality(InUse(gui')) <= MaxInUse
    /\ UNCHANGED Rest

\* a click on pushButton_upload_n
ClickUpload(n) ==
    /\ gui.open /\ gui.pushButton_upload[n]
    /\ \E outcome \in BoardOutcomes :
          gui' = Handled(setup_task(gui, n, outcome), "pushButton_upload", n, "setup_task",
                         IF setup_call(gui, n) \in {"NameError", "AttributeError"} \/ outcome = "ok"
                         THEN setup_call(gui, n) ELSE outcome)
    /\ UNCHANGED Rest

\* a click on pushButton_StartN
ClickStart(n) ==
    /\ gui.open /\ gui.pushButton_Start[n]
    /\ gui' = Handled(start_task(gui, n), "pushButton_Start", n, "start_task", "")
    /\ UNCHANGED Rest

\* a click on pushButton_StopN
ClickStop(n) ==
    /\ gui.open /\ gui.pushButton_Stop[n]
    /\ gui.shots[n] < MaxShots
    /\ gui' = Handled(stop_task(gui, n, FALSE, FALSE), "pushButton_Stop", n, "stop_task", "")
    /\ UNCHANGED Rest

\* a timeout of process_timer_n
ProcessTimeout(n) ==
    /\ gui.open /\ gui.process_timer[n]
    /\ \E outcome \in DataOutcomes :
          gui' = Handled(process_data(gui, n, outcome), "process_timer", n, "process_data", outcome)
    /\ UNCHANGED Rest

\* the single shot that stop_task_n set up fires
SingleShot(n) ==
    /\ gui.open /\ gui.shots[n] > 0
    /\ \E outcome \in DataOutcomes :
          gui' = Handled(process_data([gui EXCEPT !.shots[n] = @ - 1], n, outcome),
                         "singleShot", n, "process_data", outcome)
    /\ UNCHANGED Rest

\* a timeout of one of the refresh timers
RefreshTimeout ==
    /\ gui.open /\ \E n \in Boxes : gui.refresh_timer[n]
    /\ \E modified \in SUBSET {n \in Boxes : gui.task[n] # "None"}, com_list \in 0..NumBoxes :
          gui' = Handled(refresh(gui, modified, com_list), "refresh_timer", 0, "refresh", "")
    /\ UNCHANGED Rest

\* the window is closed
Close ==
    /\ gui.open
    /\ gui' = Handled(closeEvent(gui), "window", 0, "closeEvent", "")
    /\ UNCHANGED Rest

NextGui ==
    \/ \E n \in Boxes : ClickConnect(n)
    \/ \E n \in Boxes : ClickUpload(n)
    \/ \E n \in Boxes : ClickStart(n)
    \/ \E n \in Boxes : ClickStop(n)
    \/ \E n \in Boxes : ProcessTimeout(n)
    \/ \E n \in Boxes : SingleShot(n)
    \/ RefreshTimeout
    \/ Close

SpecGui == InitGui /\ [][NextGui]_vars

----------------------------------------------------------------------------
(* Vocabulary of the properties *)

Aligners == DOMAIN status
Ready(i) == status[i] = "ready"
Converted == last.op # "none"
IsRoundTrip == last.op = "B_to_A" /\ last.times # AllTimes

\* the sample points (xp, fp) the last conversion interpolated over
Xp == IF last.op = "A_to_B" THEN self[last.aligner].pulse_times_A
      ELSE self[last.aligner].pulse_times_B
Fp == IF last.op = "A_to_B" THEN self[last.aligner].cor_times_B
      ELSE self[last.aligner].cor_times_A

Defined(fp) == {p \in 1..Len(fp) : ~IsNaN(fp[p])}
FLeq(a, b) == FLess(a, b) \/ FEq(a, b)

\* x lies between two sample points that are defined
Spanned(x, xp, fp) ==
    \E p, q \in Defined(fp) : FLeq(Float(xp[p]), x) /\ FLeq(x, Float(xp[q]))

\* linear interpolation of x over the defined sample points only
LinearOverDefined(x, xp, fp) ==
    LET below == {p \in Defined(fp) : FLeq(Float(xp[p]), x)}
        above == {p \in Defined(fp) : FLeq(x, Float(xp[p]))}
        lo == CHOOSE p \in below : \A q \in below : q <= p
        hi == CHOOSE p \in above : \A q \in above : p <= q
    IN  IF lo = hi THEN fp[lo]
        ELSE FAdd(fp[lo],
                  FMul(FDiv(FSub(fp[hi], fp[lo]), Float(xp[hi] - xp[lo])),
                       FSub(x, Float(xp[lo]))))

\* x lies strictly before the first or strictly after the last defined sample point
Outside(x, xp, fp) ==
    \/ \A p \in Defined(fp) : FLess(x, Float(xp[p]))
    \/ \A p \in Defined(fp) : FLess(Float(xp[p]), x)

\* the contract of the chunk matcher: each train has at least chunk_size intervals
InContract(i) ==
    /\ locals[i].called
    /\ Len(pulses.A) - 1 >= locals[i].chunk_size
    /\ Len(pulses.B) - 1 >= locals[i].chunk_size

\* the chunks (positions in chunk_starts_A) the correspondence loop copied
Matched(i) == {k \in 1..Len(locals[i].zipped_valid) : locals[i].zipped_valid[k]}

\* no two copied chunks share a position of their windows in B
NoOverlap(i) ==
    \A k, l \in Matched(i) :
        k # l => Abs(locals[i].chunk_starts_B[k] - locals[i].chunk_starts_B[l])
                    >= locals[i].chunk_size

\* both systems recorded the very same pulse times
ZeroNoise == pulses.B = pulses.A

\* the last A pulse a chunk covers (1-based position)
LastChunkPulse(i) == Len(locals[i].chunk_starts_A) * locals[i].chunk_size

InsideArray(x, xp) == FLeq(Float(xp[1]), x) /\ FLeq(x, Float(xp[Len(xp)]))

----------------------------------------------------------------------------
(* Properties *)

\* C1: A_to_B(t), for t between two A pulses whose cor_times_B entries are
\* defined, is the linear interpolation between the nearest defined sample
\* points on either side of t (undefined entries ignored).
C1_InterpolatesOverDefined ==
    (last.op = "A_to_B" /\ InContract(last.aligner)) =>
        \A k \in 1..Len(last.times) :
            Spanned(last.times[k], Xp, Fp) =>
                last.result[k] = LinearOverDefined(last.times[k], Xp, Fp)

\* C2: no extrapolation: a conversion (either direction) of a timestamp
\* strictly before the first or strictly after the last defined
\* correspondence point returns NaN.
C2_NoExtrapolation ==
    Converted =>
        \A k \in 1..Len(last.times) :
            Outside(last.times[k], Xp, Fp) => IsNaN(last.result[k])

\* a converted timestamp inside the pulse array, before the first defined
\* entry, and another one inside the array after the last defined entry
C2_Witness ==
    /\ Converted /\ InContract(last.aligner)
    /\ Defined(Fp) # {}
    /\ \E k \in 1..Len(last.times) :
          /\ InsideArray(last.times[k], Xp)
          /\ \A p \in Defined(Fp) : FLess(last.times[k], Float(Xp[p]))
    /\ \E k \in 1..Len(last.times) :
          /\ InsideArray(last.times[k], Xp)
          /\ \A p \in Defined(Fp) : FLess(Float(Xp[p]), last.times[k])

\* C3: a conversion is exact at every matched pulse, in both directions:
\* A_to_B(pulse_times_A[i]) = cor_times_B[i] and
\* B_to_A(pulse_times_B[j]) = cor_times_A[j] wherever the entry is defined,
\* whatever the neighbouring entries are.
C3_ExactAtMatchedPulses ==
    Converted =>
        \A k \in 1..Len(last.times) : \A p \in Defined(Fp) :
            last.times[k] = Float(Xp[p]) => last.result[k] = Fp[p]

\* a B_to_A conversion at a matched pulse whose two neighbours are undefined
\* on one side and defined on the other
C3_Witness ==
    /\ last.op = "B_to_A" /\ InContract(last.aligner)
    /\ \E p \in Defined(Fp) : \E k \in 1..Len(last.times) :
          /\ last.times[k] = Float(Xp[p])
          /\ p > 1 /\ p < Len(Fp)
          /\ IsNaN(Fp[p - 1]) # IsNaN(Fp[p + 1])

C5_IdentityAlignment ==
    (ZeroNoise /\ Ready(1)) =>
        /\ Len(locals[1].zipped_valid) = Len(locals[1].chunk_starts_A)
        /\ \A k \in 1..Len(locals[1].zipped_valid) : locals[1].zipped_valid[k]
        /\ (Converted /\ last.times = AllTimes) =>
              \A k \in 1..Len(last.times) :
                  (/\ FLeq(Float(pulses.A[1]), last.times[k])
                   /\ FLeq(last.times[k], Float(pulses.A[LastChunkPulse(1)])))
                  => last.result[k] = last.times[k]

\* C6: two constructions from identical pulse_times_A, pulse_times_B and
\* chunk_size end alike, with identical classification and identical
\* cor_times_A and cor_times_B.
C6_Deterministic ==
    \A i, j \in Aligners :
        (/\ locals[i].called /\ locals[j].called
         /\ locals[i].chunk_size = locals[j].chunk_size) =>
            /\ status[i] = status[j]
            /\ self[i] = self[j]
            /\ Ready(i) => locals[i].zipped_valid = locals[j].zipped_valid

\* C7: when B has fewer than chunk_size intervals (but at least one),
\* construction raises and no attribute of the aligner is assigned.
C7_ShortBRaises ==
    \A i \in Aligners :
        (/\ locals[i].called
         /\ 0 < Len(pulses.B) - 1
         /\ Len(pulses.B) - 1 < locals[i].chunk_size) =>
            status[i] = "raised" /\ ~self[i].assigned

\* C8: when A has fewer than chunk_size intervals (zero chunks),
\* construction raises before any attribute of the aligner is assigned.
C8_ShortARaises ==
    \A i \in Aligners :
        (locals[i].called /\ Len(pulses.A) - 1 < locals[i].chunk_size) =>
            status[i] = "raised" /\ self[i] = NoAttrs

\* the constructor was called on a train A of two pulses (one interval)
\* against a train B long enough to be scanned
C8_Witness ==
    /\ locals[1].called
    /\ Len(pulses.A) = 2
    /\ Len(pulses.B) - 1 > locals[1].chunk_size
    /\ status[1] = "raised"

\* C9: once __init__ has returned, no A_to_B or B_to_A call changes
\* pulse_times_A, pulse_times_B, cor_times_A or cor_times_B, and a call
\* repeated with the same argument returns the same result.
C9_ImmutableAfterConstruction ==
    [][/\ \A i \in Aligners : Ready(i) => self'[i] = self[i]
       /\ (/\ Converted
           /\ last'.op = last.op
           /\ last'.aligner = last.aligner
           /\ last'.times = last.times) => last'.result = last.result]_vars

\* a B_to_A call made after an A_to_B call on an aligner with matched pulses
C9_Witness ==
    /\ IsRoundTrip /\ InContract(1)
    /\ Defined(self[1].cor_times_A) # {}
    /\ \E k \in 1..Len(last.result) : ~IsNaN(last.result[k])

\* C10: the plot argument has no effect on the aligner: two constructions
\* from the same pulses and chunk_size with the same classifier outcome, one
\* with the plot and one without, hold the same pulse_times_A,
\* pulse_times_B, cor_times_A and cor_times_B.
C10_PlotHasNoEffect ==
    \A i, j \in Aligners :
        (/\ Ready(i) /\ Ready(j)
         /\ locals[i].plot /\ ~locals[j].plot
         /\ locals[i].chunk_size = locals[j].chunk_size
         /\ locals[i].n_valid_matches = locals[j].n_valid_matches
         /\ locals[i].zipped_valid = locals[j].zipped_valid) =>
            self[i] = self[j]

\* two aligners with the same classifier outcome and matched chunks, one
\* built with the plot (figure 1 is drawn) and one without
C10_Witness ==
    /\ Ready(1) /\ Ready(2)
    /\ locals[1].plot /\ ~locals[2].plot
    /\ locals[1].chunk_size = locals[2].chunk_size
    /\ locals[1].zipped_valid = locals[2].zipped_valid
    /\ Matched(1) # {}
    /\ figures = {1}

\* the step is an operation (construction or conversion) on aligner i
ActsOn(i) ==
    \/ status'[i] # status[i]
    \/ last' # last /\ last'.aligner = i

\* C11: two aligners constructed and queried in any interleaving are
\* independent: an operation on one changes neither the attributes
\* (correspondence arrays included) nor the construction record of the other,
\* and what a conversion returns is determined by the arrays of the aligner it
\* is called on alone.
C11_IndependentInstances ==
    [][\A i \in Aligners :
          ActsOn(i) =>
              /\ \A j \in Aligners \ {i} :
                    /\ self'[j] = self[j]
                    /\ status'[j] = status[j]
                    /\ locals'[j] = locals[j]
              /\ last' # last =>
                    last'.result =
                        IF last'.op = "A_to_B"
                        THEN Interp(last'.times, self[i].pulse_times_A, self[i].cor_times_B)
                        ELSE Interp(last'.times, self[i].pulse_times_B, self[i].cor_times_A)]_vars

\* both aligners are constructed with different correspondence arrays, and
\* the second one has answered a conversion
C11_Witness ==
    /\ Ready(1) /\ Ready(2)
    /\ self[1].cor_times_B # self[2].cor_times_B
    /\ Defined(self[1].cor_times_B) # {} /\ Defined(self[2].cor_times_B) # {}
    /\ last.op = "B_to_A" /\ last.aligner = 2
    /\ \E k \in 1..Len(last.result) : ~IsNaN(last.result[k])

\* C12: the chunk starts of A are exactly 0, chunk_size, 2*chunk_size, ...
\* for every start c with c + chunk_size <= len(pulse_times_A) - 1; there are
\* floor((len(pulse_times_A) - 1) / chunk_size) chunks, each holds exactly
\* chunk_size intervals, the chunks are pairwise disjoint, and only a
\* trailing remainder of fewer than chunk_size intervals is left uncovered.
C12_ChunkPartition ==
    \A i \in Aligners :
        locals[i].called =>
            LET chunk_size == locals[i].chunk_size
                intervals_A == Diff(pulses.A)
                n_intervals == Len(pulses.A) - 1
                starts == ChunkStartsA(pulses.A, chunk_size)
            IN  /\ Len(starts) = n_intervals \div chunk_size
                /\ \A k \in 1..Len(starts) : starts[k] = (k - 1) * chunk_size
                /\ Range(starts) = {c \in 0..n_intervals :
                                       c % chunk_size = 0 /\ c + chunk_size <= n_intervals}
                /\ \A k \in 1..Len(starts) :
                      Len(Slice(intervals_A, starts[k], starts[k] + chunk_size)) = chunk_size
                /\ \A k, l \in 1..Len(starts) :
                      k < l => starts[k] + chunk_size <= starts[l]
                /\ n_intervals - Len(starts) * chunk_size \in 0..(chunk_size - 1)
                /\ Ready(i) => locals[i].chunk_starts_A = starts

\* an aligner built on a train A that holds two chunks or more and a
\* trailing remainder
C12_Witness ==
    /\ Ready(1)
    /\ Len(locals[1].chunk_starts_A) >= 2
    /\ (Len(pulses.A) - 1) % locals[1].chunk_size # 0

\* the mean over j in [0, chunk_size) of (IA[c+j] - IB[k+j])^2, computed directly
MeanSquaredError(intervals_A, intervals_B, c, k, chunk_size) ==
    LET d == [j \in 1..chunk_size |-> intervals_A[c + j] - intervals_B[k + j]]
    IN  Rat(Dot(d, d), chunk_size)

\* C13: for every chunk start c and every offset k with
\* 0 <= k <= len(IB) - chunk_size, the value the matcher computes at position
\* k of the chunk's profile equals the mean over j in [0, chunk_size) of
\* (IA[c+j] - IB[k+j])^2, and the profile has exactly
\* len(IB) - chunk_size + 1 entries.
C13_MseProfile ==
    \A i \in Aligners :
        (locals[i].called /\ Len(pulses.B) >= 2) =>
            LET chunk_size == locals[i].chunk_size
                intervals_A == Diff(pulses.A)
                intervals_B == Diff(pulses.B)
                starts == ChunkStartsA(pulses.A, chunk_size)
            IN  \A n \in 1..Len(starts) :
                    LET c == starts[n]
                        mse == Mse(intervals_B, Slice(intervals_A, c, c + chunk_size),
                                   chunk_size)
                    IN  /\ Len(mse) = Len(intervals_B) - chunk_size + 1
                        /\ \A k \in 0..(Len(intervals_B) - chunk_size) :
                              mse[k + 1] = MeanSquaredError(intervals_A, intervals_B,
                                                            c, k, chunk_size)

\* the profile the matcher computes for the n-th chunk of aligner i
Profile(i, n) ==
    LET chunk_size == locals[i].chunk_size
        c == ChunkStartsA(pulses.A, chunk_size)[n]
    IN  Mse(Diff(pulses.B), Slice(Diff(pulses.A), c, c + chunk_size), chunk_size)

\* what the matcher of aligner i's construction recorded
Recorded(i) == Matcher(pulses.A, pulses.B, locals[i].chunk_size)
Scanned(i) == locals[i].called /\ Recorded(i).error = ""

\* C14: for every chunk the recorded best offset is the smallest index k at
\* which the chunk's profile attains its minimum (the first occurrence wins
\* ties), and the recorded min_mse is the profile's value at that offset.
C14_BestAlignment ==
    \A i \in Aligners :
        Scanned(i) =>
            LET m == Recorded(i)
            IN  /\ \A n \in 1..Len(m.chunk_starts_A) :
                      LET mse == Profile(i, n)
                          b == m.chunk_starts_B[n]
                      IN  /\ b \in 0..(Len(mse) - 1)
                          /\ \A k \in 1..Len(mse) : ~FLess(mse[k], mse[b + 1])
                          /\ \A k \in 1..b : FLess(mse[b + 1], mse[k])
                          /\ m.chunk_min_mse[n] = mse[b + 1]
                /\ Ready(i) => /\ locals[i].chunk_starts_B = m.chunk_starts_B
                               /\ locals[i].chunk_min_mse = m.chunk_min_mse

\* an aligner with a chunk whose profile attains its minimum at two offsets,
\* the later of them not the recorded one, and a chunk whose best offset is
\* not the first
C14_Witness ==
    /\ Ready(1) /\ InContract(1)
    /\ \E n \in 1..Len(locals[1].chunk_starts_A) :
          \E k \in 1..Len(Profile(1, n)) :
              /\ k > locals[1].chunk_starts_B[n] + 1
              /\ Profile(1, n)[k] = locals[1].chunk_min_mse[n]
    /\ \E n \in 1..Len(locals[1].chunk_starts_A) : locals[1].chunk_starts_B[n] > 0

\* C15: for every chunk whose profile has at least 2 entries, the recorded
\* second_mse is the smallest value of the profile over all positions other
\* than the best offset (so it equals min_mse when the minimum is attained at
\* two offsets).
C15_SecondBest ==
    \A i \in Aligners :
        Scanned(i) =>
            LET m == Recorded(i)
            IN  /\ \A n \in 1..Len(m.chunk_starts_A) :
                      LET mse == Profile(i, n)
                          others == (1..Len(mse)) \ {m.chunk_starts_B[n] + 1}
                      IN  Len(mse) >= 2 =>
                              /\ \E k \in others : mse[k] = m.chunk_2nd_mse[n]
                              /\ \A k \in others : ~FLess(mse[k], m.chunk_2nd_mse[n])
                /\ Ready(i) => locals[i].chunk_2nd_mse = m.chunk_2nd_mse

\* an aligner with a chunk whose minimum is attained twice (second_mse equals
\* min_mse) and a chunk whose second_mse lies strictly between the smallest
\* and the largest value of its profile
C15_Witness ==
    /\ Ready(1) /\ InContract(1)
    /\ \E n \in 1..Len(locals[1].chunk_starts_A) :
          locals[1].chunk_2nd_mse[n] = locals[1].chunk_min_mse[n]
    /\ \E n \in 1..Len(locals[1].chunk_starts_A) :
          /\ FLess(locals[1].chunk_min_mse[n], locals[1].chunk_2nd_mse[n])
          /\ \E k \in 1..Len(Profile(1, n)) :
                FLess(locals[1].chunk_2nd_mse[n], Profile(1, n)[k])

\* C16: when B has exactly chunk_size intervals (every profile has the single
\* offset k = 0), construction does not raise on the missing second-best
\* value: each chunk's second_mse is recorded as NaN and kept out of the
\* classification.
C16_SingleCandidate ==
    \A i \in Aligners :
        (/\ locals[i].called
         /\ Len(pulses.B) - 1 = locals[i].chunk_size
         /\ Len(ChunkStartsA(pulses.A, locals[i].chunk_size)) >= 1) =>
            /\ locals[i].error # "IndexError"
            /\ Ready(i) =>
                  /\ \A n \in 1..Len(locals[i].chunk_2nd_mse) :
                        IsNaN(locals[i].chunk_2nd_mse[n])
                  /\ locals[i].n_valid_matches <= Len(locals[i].chunk_min_mse)

\* the flag that decides whether the n-th chunk is written: the n-th element
\* of valid_matches, when the zip reaches it
Flag(i, n) == n <= Len(locals[i].zipped_valid) /\ locals[i].zipped_valid[n]

\* the position in log_mse (and so in valid_matches) of the n-th chunk's own
\* log(min_mse), which is finite: the non-finite ones before it were dropped
OwnSample(i, n) ==
    Cardinality({j \in 1..n : IsFinite(Log(locals[i].chunk_min_mse[j]))})

\* C17: for every chunk the flag that decides whether the chunk is written
\* into the correspondence arrays is the mixture's label of the chunk's own
\* log(min_mse) (MATCH exactly when it falls to the lower-mean component),
\* also when non-finite log values were discarded from the pooled set before
\* the fit.  Stated for the chunks the mixture labels, those whose
\* log(min_mse) is finite.
C17_ClassifiedOnOwnMinimum ==
    \A i \in Aligners :
        Ready(i) =>
            \A n \in 1..Len(locals[i].chunk_starts_A) :
                IsFinite(Log(locals[i].chunk_min_mse[n])) =>
                    Flag(i, n) = locals[i].zipped_valid[OwnSample(i, n)]

\* position p (0-based) of B lies in the window of a matched chunk later than n
CoveredLater(i, n, p) ==
    \E l \in Matched(i) :
        /\ l > n
        /\ locals[i].chunk_starts_B[l] <= p
        /\ p < locals[i].chunk_starts_B[l] + locals[i].chunk_size

\* C18: for every chunk with start c and best offset b that the loop takes
\* as MATCH, after construction cor_times_B[c+j] = pulse_times_B[b+j] for
\* every j in [0, chunk_size), and cor_times_A[b+j] = pulse_times_A[c+j]
\* unless a later matched chunk's window in B covers b+j; chunk_size entries
\* are written in each array per matched chunk.
C18_CorrespondenceCopy ==
    \A i \in Aligners :
        Ready(i) =>
            /\ \A n \in Matched(i) :
                  LET c == locals[i].chunk_starts_A[n]
                      b == locals[i].chunk_starts_B[n]
                  IN  /\ c + locals[i].chunk_size <= Len(pulses.A)
                      /\ b + locals[i].chunk_size <= Len(pulses.B)
                      /\ \A j \in 0..(locals[i].chunk_size - 1) :
                            /\ self[i].cor_times_B[c + j + 1] = Float(pulses.B[b + j + 1])
                            /\ ~IsNaN(self[i].cor_times_A[b + j + 1])
                            /\ ~CoveredLater(i, n, b + j) =>
                                  self[i].cor_times_A[b + j + 1] = Float(pulses.A[c + j + 1])
            /\ Cardinality(Defined(self[i].cor_times_B))
                  = locals[i].chunk_size * Cardinality(Matched(i))

\* an aligner with two matched chunks, one of them with a best offset other
\* than its own start
C18_Witness ==
    /\ Ready(1) /\ InContract(1)
    /\ Cardinality(Matched(1)) >= 2
    /\ \E n \in Matched(1) : locals[1].chunk_starts_B[n] # locals[1].chunk_starts_A[n]

\* the positions (1-based) of A's pulses inside a matched chunk, and of B's
\* pulses inside a matched chunk's window
MatchedInA(i) ==
    {locals[i].chunk_starts_A[n] + j + 1 :
        n \in Matched(i), j \in 0..(locals[i].chunk_size - 1)}
MatchedInB(i) ==
    {locals[i].chunk_starts_B[n] + j + 1 :
        n \in Matched(i), j \in 0..(locals[i].chunk_size - 1)}

\* C19: cor_times_A has one entry per B pulse and cor_times_B one entry per
\* A pulse; cor_times_B[p] is defined exactly when p lies in
\* [c, c + chunk_size) for the start c of a chunk taken as MATCH, and
\* cor_times_A[q] exactly when q lies in the window [b, b + chunk_size) in B
\* of such a chunk; every other entry is NaN.
C19_SparseMap ==
    \A i \in Aligners :
        Ready(i) =>
            /\ Len(self[i].cor_times_A) = Len(pulses.B)
            /\ Len(self[i].cor_times_B) = Len(pulses.A)
            /\ Defined(self[i].cor_times_B) = MatchedInA(i)
            /\ Defined(self[i].cor_times_A) = MatchedInB(i)

\* an aligner with a matched chunk and an unmatched one, whose two arrays
\* both hold defined and undefined entries
C19_Witness ==
    /\ Ready(1) /\ InContract(1)
    /\ Matched(1) # {}
    /\ \E n \in 1..Len(locals[1].chunk_starts_A) : n \notin Matched(1)
    /\ Defined(self[1].cor_times_A) \notin {{}, 1..Len(pulses.B)}
    /\ Defined(self[1].cor_times_B) \notin {{}, 1..Len(pulses.A)}

\* the matched chunks whose window in B covers position p (0-based)
Covering(i, p) ==
    {n \in Matched(i) :
        /\ locals[i].chunk_starts_B[n] <= p
        /\ p < locals[i].chunk_starts_B[n] + locals[i].chunk_size}

\* the A pulse time chunk n writes at position p of cor_times_A
Written(i, n, p) ==
    Float(pulses.A[locals[i].chunk_starts_A[n] + (p - locals[i].chunk_starts_B[n]) + 1])

\* C20: where the windows in B of two matched chunks overlap, every
\* overlapped position of cor_times_A holds the value written by the chunk
\* processed later (the one with the larger start index in A).
C20_LaterChunkOverwrites ==
    \A i \in Aligners :
        Ready(i) =>
            \A p \in 0..(Len(pulses.B) - 1) :
                Cardinality(Covering(i, p)) >= 2 =>
                    LET later == CHOOSE n \in Covering(i, p) :
                                    \A l \in Covering(i, p) : l <= n
                    IN  /\ self[i].cor_times_A[p + 1] = Written(i, later, p)
                        /\ \A l \in Covering(i, p) \ {later} :
                              /\ locals[i].chunk_starts_A[l] < locals[i].chunk_starts_A[later]
                              /\ self[i].cor_times_A[p + 1] # Written(i, l, p)

\* an aligner with two matched chunks whose windows in B overlap
C20_Witness ==
    /\ Ready(1) /\ InContract(1)
    /\ \E p \in 0..(Len(pulses.B) - 1) : Cardinality(Covering(1, p)) >= 2

\* C21: after construction the two arrays describe one and the same
\* one-to-one pairing of pulses: cor_times_B[p] = pulse_times_B[q] (defined)
\* implies cor_times_A[q] = pulse_times_A[p], and conversely, also when the
\* windows in B of two matched chunks overlap.  Stated for trains of at least
\* chunk_size intervals each.
C21_ConsistentPairing ==
    \A i \in Aligners :
        (Ready(i) /\ InContract(i)) =>
            \A p \in 1..Len(pulses.A) : \A q \in 1..Len(pulses.B) :
                (self[i].cor_times_B[p] = Float(pulses.B[q]))
                    <=> (self[i].cor_times_A[q] = Float(pulses.A[p]))

\* the intervals of train t are its consecutive differences
ConsecutiveDifferences(t, d) ==
    IF Len(t) >= 2
    THEN Len(d) = Len(t) - 1 /\ \A k \in 1..(Len(t) - 1) : d[k] = t[k + 1] - t[k]
    ELSE d = <<>>

\* C22: for a pulse sequence of length n >= 2 the interval sequence has
\* length n-1 with interval[i] = time[i+1] - time[i]; for n < 2 it is empty;
\* the pulse sequence passed in is not modified (the aligner holds it as it
\* was passed).
C22_IntervalProfiler ==
    \A i \in Aligners :
        locals[i].called =>
            /\ ConsecutiveDifferences(pulses.A, Diff(pulses.A))
            /\ ConsecutiveDifferences(pulses.B, Diff(pulses.B))
            /\ Ready(i) => /\ self[i].pulse_times_A = pulses.A
                           /\ self[i].pulse_times_B = pulses.B

\* a constructor call on a train of one pulse (no interval) and one of
\* several pulses with unequal intervals
C22_Witness ==
    /\ locals[1].called
    /\ Len(pulses.B) = 1
    /\ Len(pulses.A) >= 4
    /\ \E k \in 1..(Len(pulses.A) - 2) : Diff(pulses.A)[k] # Diff(pulses.A)[k + 1]

\* offset k (0-based) of the n-th chunk has a non-finite interval in the
\* chunk or in the window of B it is compared with
TouchesNonFinite(n, k) ==
    LET chunk_size == scan.chunk_size
        intervals_A == XDiff(scan.pulse_times_A)
        intervals_B == XDiff(scan.pulse_times_B)
        c == scan.matcher.chunk_starts_A[n]
    IN  \E j \in 1..chunk_size :
            ~XIsFinite(intervals_A[c + j]) \/ ~XIsFinite(intervals_B[k + j])

\* C23: when an interval of A or B is NaN or infinite, the chunk-matching
\* loop completes for every chunk without raising, and the MSE value of a
\* chunk at an offset is non-finite exactly when the chunk or the window of
\* B at that offset contains such an interval.
C23_NonFinitePropagates ==
    scan.called =>
        /\ scan.matcher.error = ""
        /\ Len(scan.matcher.mse) = Len(ChunkStartsA(scan.pulse_times_A, scan.chunk_size))
        /\ \A n \in 1..Len(scan.matcher.mse) :
              \A k \in 1..Len(scan.matcher.mse[n]) :
                  ~XIsFinite(scan.matcher.mse[n][k]) <=> TouchesNonFinite(n, k - 1)

\* a scan of a train B with an infinite pulse time in its middle: one chunk
\* has a finite and a non-finite MSE value in its profile
C23_Witness ==
    /\ scan.called
    /\ \E g \in 2..(Len(scan.pulse_times_B) - 1) : scan.pulse_times_B[g] = PosInf
    /\ \E n \in 1..Len(scan.matcher.mse) :
          /\ \E k \in 1..Len(scan.matcher.mse[n]) : XIsFinite(scan.matcher.mse[n][k])
          /\ \E k \in 1..Len(scan.matcher.mse[n]) : ~XIsFinite(scan.matcher.mse[n][k])

\* C24: whenever construction succeeds, the correspondence loop iterates one
\* (chunk start, best offset, match flag) triple per chunk: no chunk is left
\* out because fewer flags than chunks remain once the non-finite log values
\* were discarded.
C24_EveryChunkConsidered ==
    \A i \in Aligners :
        Ready(i) =>
            /\ Len(locals[i].zipped_valid) = Len(locals[i].chunk_starts_A)
            /\ locals[i].n_valid_matches >= Len(locals[i].chunk_starts_A)

\* the slice arr[lo : lo + chunk_size] lies inside arr and has chunk_size elements
WholeSlice(arr, lo, chunk_size) ==
    /\ 0 <= lo
    /\ lo + chunk_size <= Len(arr)
    /\ Len(Slice(arr, lo, lo + chunk_size)) = chunk_size

\* C25: whenever len(IB) >= chunk_size, every recorded best offset b
\* satisfies 0 <= b <= len(IB) - chunk_size, so the four slices of lines
\* 52-53 (cor_times_A[b : b+chunk_size], pulse_times_B[b : b+chunk_size],
\* cor_times_B[c : c+chunk_size], pulse_times_A[c : c+chunk_size]) lie
\* inside their arrays and have exactly chunk_size elements.
C25_WindowBounds ==
    \A i \in Aligners :
        (Scanned(i) /\ Len(pulses.B) - 1 >= locals[i].chunk_size) =>
            LET m == Recorded(i)
                chunk_size == locals[i].chunk_size
            IN  \A n \in 1..Len(m.chunk_starts_A) :
                    LET c == m.chunk_starts_A[n]
                        b == m.chunk_starts_B[n]
                    IN  /\ 0 <= b /\ b <= Len(pulses.B) - 1 - chunk_size
                        /\ WholeSlice(FullNaN(Len(pulses.B)), b, chunk_size)
                        /\ WholeSlice(pulses.B, b, chunk_size)
                        /\ WholeSlice(FullNaN(Len(pulses.A)), c, chunk_size)
                        /\ WholeSlice(pulses.A, c, chunk_size)

\* an aligner whose last chunk ends at the last interval of A and whose
\* best offsets include the last window of B
C25_Witness ==
    /\ Ready(1) /\ InContract(1)
    /\ (Len(pulses.A) - 1) % locals[1].chunk_size = 0
    /\ Len(locals[1].chunk_starts_A) >= 2
    /\ \E n \in 1..Len(locals[1].chunk_starts_B) :
          locals[1].chunk_starts_B[n] = Len(pulses.B) - 1 - locals[1].chunk_size

\* C26: the final pulse of each train never receives a correspondence:
\* cor_times_B[len(pulse_times_A) - 1] and cor_times_A[len(pulse_times_B) - 1]
\* are NaN for every input and every classification outcome, so
\* A_to_B(pulse_times_A[-1]) and B_to_A(pulse_times_B[-1]) return NaN.
C26_FinalPulseUnmatched ==
    \A i \in Aligners :
        Ready(i) =>
            /\ IsNaN(self[i].cor_times_B[Len(pulses.A)])
            /\ IsNaN(self[i].cor_times_A[Len(pulses.B)])
            /\ (last.op = "A_to_B" /\ last.aligner = i) =>
                  IsNaN(last.result[pulses.A[Len(pulses.A)] + 1])
            /\ (last.op = "B_to_A" /\ last.aligner = i /\ last.times = AllTimes) =>
                  IsNaN(last.result[pulses.B[Len(pulses.B)] + 1])

\* the box shows a run in progress: its stop button is enabled, as
\* start_task_N leaves it and stop_task_N takes it back
Running(n) == gui.pushButton_Stop[n]

\* C27: a click on pushButton_connect_N calls disconnect_N when connected_N
\* is True and connect_N when it is False, for every box N: the choice reads
\* box N's own flag and no other box's.
C27_ConnectTogglePerBox ==
    [][\A n \in Boxes :
          gui'.event.widget = "pushButton_connect" /\ gui'.event.box = n
             => gui'.event.handler = IF gui.connected[n] THEN "disconnect" ELSE "connect"]_vars

\* C28: once closeEvent has run, every box whose board_N is not None has had
\* stop_framework() and close() called on its board, whatever boxes were
\* connected.
C28_ShutdownReleasesEveryBoard ==
    ~gui.open => \A n \in Boxes : gui.board[n] # "None" => n \in gui.released

\* C29: in every state after initialisation exactly one of process_timer_N
\* and refresh_timer_N is active, for every box N: the process timer while
\* the box runs a task and the refresh timer otherwise.
C29_TimerExclusivity ==
    \A n \in Boxes :
       /\ gui.process_timer[n] # gui.refresh_timer[n]
       /\ gui.process_timer[n] <=> Running(n)

\* one box runs its task while the run of another has just been ended by an
\* error in its process_data callback
C29_Witness ==
    \E n, m \in Boxes :
       /\ n # m
       /\ gui.process_timer[n] /\ ~gui.refresh_timer[n]
       /\ gui.event = [widget |-> "process_timer", box |-> m,
                       handler |-> "process_data", arg |-> "PyboardError"]
       /\ gui.refresh_timer[m] /\ ~gui.process_timer[m]

\* C30: whenever connected_N is False, uploaded_N is False, for every box N
\* (so that the first setup_task_N after a reconnection uploads in full).
C30_UploadedFollowsConnection ==
    \A n \in Boxes : ~gui.connected[n] => ~gui.uploaded[n]

====
